---- MODULE Spec2Model ----
(***************************************************************************)
(* The input/arithmetic state machine of the Calculator component          *)
(* (claculator/src/components/Calculator.jsx).                             *)
(*                                                                         *)
(* Strings (display, history lines) are sequences of one-character         *)
(* strings.  Numbers are records [k, neg, m, e]:                           *)
(*   k = "fin"  : the double nearest to (-1)^neg * m / 10^e, with m, e     *)
(*                normalised (no trailing fractional zero); neg keeps the  *)
(*                sign of zero;                                            *)
(*   k = "inf"  : Infinity (neg = FALSE) or -Infinity (neg = TRUE);        *)
(*   k = "nan"  : NaN;                                                     *)
(*   k = "null" : the JavaScript null held by previousValue.               *)
(* Arithmetic on two finite non-zero operands is explored only where the   *)
(* IEEE-754 double result is the decimal result (see Exact, InDomain).     *)
(***************************************************************************)
EXTENDS Integers, Sequences, FiniteSets, TLC

VARIABLES display, previousValue, operation, waitingForOperand, history,
          log, last, keys, chained

vars == <<display, previousValue, operation, waitingForOperand, history,
          log, last, keys, chained>>

(* ------------------------------ bounds -------------------------------- *)

\* Longest display a digit or decimal-point press may extend, and the
\* number of key presses per behaviour (Spec).
MaxLen == 3
MaxKeys == 6
\* The same for the long runs of SpecHistory.
HistLen == 1
HistKeys == 13
\* The same for the keyboard runs of SpecKeyboard.
KbdLen == 2
KbdKeys == 5
\* Number of key presses after which a call of inputPercent is still examined.
PercentKeys == 4
\* Largest mantissa and number of fraction digits of a computed result.
MaxMant == 999
MaxScale == 3

(* ------------------------------ numbers ------------------------------- *)

Null == [k |-> "null", neg |-> FALSE, m |-> 0, e |-> 0]
NaN == [k |-> "nan", neg |-> FALSE, m |-> 0, e |-> 0]
Inf(neg) == [k |-> "inf", neg |-> neg, m |-> 0, e |-> 0]

RECURSIVE Fin(_, _, _)
Fin(neg, m, e) ==
    IF e > 0 /\ m % 10 = 0 THEN Fin(neg, m \div 10, e - 1)
    ELSE [k |-> "fin", neg |-> neg, m |-> m, e |-> e]

RECURSIVE Pow(_, _)
Pow(b, n) == IF n = 0 THEN 1 ELSE b * Pow(b, n - 1)

IsFin(a) == a.k = "fin"
IsZero(a) == a.k = "fin" /\ a.m = 0
Negate(a) == [a EXCEPT !.neg = ~a.neg]

\* The finite value is a dyadic rational: the double holds it exactly.
Exact(a) == IsFin(a) /\ a.m % Pow(5, a.e) = 0

\* JavaScript truthiness of a number or null: null, NaN, 0 and -0 are falsy.
Truthy(a) == a.k = "inf" \/ (a.k = "fin" /\ a.m # 0)

\* a + b
Plus(a, b) ==
    IF a.k = "nan" \/ b.k = "nan" THEN NaN
    ELSE IF a.k = "inf" /\ b.k = "inf"
         THEN (IF a.neg = b.neg THEN a ELSE NaN)
    ELSE IF a.k = "inf" THEN a
    ELSE IF b.k = "inf" THEN b
    ELSE LET e == IF a.e > b.e THEN a.e ELSE b.e
             sa == (IF a.neg THEN -1 ELSE 1) * a.m * Pow(10, e - a.e)
             sb == (IF b.neg THEN -1 ELSE 1) * b.m * Pow(10, e - b.e)
             s == sa + sb
         IN  IF s = 0
             THEN Fin(a.m = 0 /\ b.m = 0 /\ a.neg /\ b.neg, 0, 0)
             ELSE Fin(s < 0, IF s < 0 THEN -s ELSE s, e)

\* a - b
Minus(a, b) == IF b.k = "nan" THEN NaN ELSE Plus(a, Negate(b))

\* a * b
Times(a, b) ==
    IF a.k = "nan" \/ b.k = "nan" THEN NaN
    ELSE IF a.k = "inf" \/ b.k = "inf"
         THEN (IF IsZero(a) \/ IsZero(b) THEN NaN ELSE Inf(a.neg # b.neg))
    ELSE IF a.m = 0 \/ b.m = 0 THEN Fin(a.neg # b.neg, 0, 0)
    ELSE Fin(a.neg # b.neg, a.m * b.m, a.e + b.e)

\* Long division num / den to at most `left` more fraction digits:
\* <<mantissa, scale>>, or <<-1, 0>> when the expansion does not end there.
RECURSIVE LongDiv(_, _, _, _, _)
LongDiv(q, r, den, e, left) ==
    IF r = 0 THEN <<q, e>>
    ELSE IF left = 0 \/ q > MaxMant THEN <<-1, 0>>
    ELSE LongDiv(q * 10 + (r * 10) \div den, (r * 10) % den, den, e + 1, left - 1)

Quotient(a, b) ==
    LET num == a.m * Pow(10, b.e)
        den == b.m * Pow(10, a.e)
    IN  LongDiv(num \div den, num % den, den, 0, MaxScale)

\* Variant of Divide that special-cases a zero divisor.
DivideZeroChecked(a, b) ==
    IF a.k = "nan" \/ b.k = "nan" THEN NaN
    ELSE IF a.k = "inf"
         THEN (IF b.k = "inf" THEN NaN ELSE Inf(a.neg # b.neg))
    ELSE IF b.k = "inf" THEN Fin(a.neg # b.neg, 0, 0)
    ELSE IF b.m = 0 THEN NaN
    ELSE IF a.m = 0 THEN Fin(a.neg # b.neg, 0, 0)
    ELSE LET q == Quotient(a, b) IN Fin(a.neg # b.neg, q[1], q[2])

\* a / b
Divide(a, b) ==
    IF a.k = "nan" \/ b.k = "nan" THEN NaN
    ELSE IF a.k = "inf"
         THEN (IF b.k = "inf" THEN NaN ELSE Inf(a.neg # b.neg))
    ELSE IF b.k = "inf" THEN Fin(a.neg # b.neg, 0, 0)
    ELSE IF b.m = 0
         THEN (IF a.m = 0 THEN NaN ELSE Inf(a.neg # b.neg))
    ELSE IF a.m = 0 THEN Fin(a.neg # b.neg, 0, 0)
    ELSE LET q == Quotient(a, b) IN Fin(a.neg # b.neg, q[1], q[2])

\* The decimal result of a binary operation is what the doubles give:
\* always when an operand is special or zero, otherwise when both operands
\* are held exactly and the result is a short decimal.
Small(r) == r.k # "fin" \/ (r.m >= 0 /\ r.m <= MaxMant /\ r.e <= MaxScale)

InDomain(a, op, b) ==
    IF a.k # "fin" \/ b.k # "fin" THEN TRUE
    ELSE IF a.m = 0 \/ b.m = 0 THEN TRUE
    ELSE IF ~(Exact(a) /\ Exact(b)) THEN FALSE
    ELSE CASE op = "+" -> Small(Plus(a, b))
           [] op = "-" -> Small(Minus(a, b))
           [] op = "×" -> Small(Times(a, b))
           [] op = "÷" -> IF Quotient(a, b)[1] < 0 THEN FALSE
                          ELSE Small(Divide(a, b))
           [] OTHER -> TRUE

(* ------------------------------ strings ------------------------------- *)

DigitChars == <<"0", "1", "2", "3", "4", "5", "6", "7", "8", "9">>
IsDigit(c) == \E i \in 1..10 : DigitChars[i] = c
DigitVal(c) == (CHOOSE i \in 1..10 : DigitChars[i] = c) - 1

\* String(digit)
RECURSIVE NatStr(_)
NatStr(n) ==
    IF n < 10 THEN <<DigitChars[n + 1]>>
    ELSE NatStr(n \div 10) \o <<DigitChars[(n % 10) + 1]>>

RECURSIVE Zeros(_)
Zeros(n) == IF n <= 0 THEN <<>> ELSE <<"0">> \o Zeros(n - 1)

\* String(x), `${x}` : Number::toString in plain decimal notation.
NumStr(a) ==
    IF a.k = "nan" THEN <<"N", "a", "N">>
    ELSE IF a.k = "inf"
         THEN (IF a.neg THEN <<"-">> ELSE <<>>)
              \o <<"I", "n", "f", "i", "n", "i", "t", "y">>
    ELSE IF a.m = 0 THEN <<"0">>
    ELSE LET ds == NatStr(a.m)
             pad == Zeros(a.e + 1 - Len(ds)) \o ds
             ip == SubSeq(pad, 1, Len(pad) - a.e)
             fp == SubSeq(pad, Len(pad) - a.e + 1, Len(pad))
         IN  (IF a.neg THEN <<"-">> ELSE <<>>)
             \o ip \o (IF a.e > 0 THEN <<".">> \o fp ELSE <<>>)

\* Length of the longest prefix of s made of digits.
RECURSIVE DigitRun(_)
DigitRun(s) ==
    IF s # <<>> /\ IsDigit(Head(s)) THEN 1 + DigitRun(Tail(s)) ELSE 0

RECURSIVE DigitsVal(_)
DigitsVal(s) ==
    IF s = <<>> THEN 0
    ELSE DigitsVal(SubSeq(s, 1, Len(s) - 1)) * 10 + DigitVal(s[Len(s)])

StartsWith(s, p) == Len(s) >= Len(p) /\ SubSeq(s, 1, Len(p)) = p

Includes(s, c) == \E i \in 1..Len(s) : s[i] = c

\* parseFloat(s): the longest prefix that is a decimal literal
\* (sign, digits, optional point and digits) or a signed "Infinity".
ParseFloat(s) ==
    LET neg == s # <<>> /\ Head(s) = "-"
        t == IF neg THEN Tail(s) ELSE s
        n1 == DigitRun(t)
        u == SubSeq(t, n1 + 1, Len(t))
        n2 == IF u # <<>> /\ Head(u) = "." THEN DigitRun(Tail(u)) ELSE 0
    IN  IF StartsWith(t, <<"I", "n", "f", "i", "n", "i", "t", "y">>)
        THEN Inf(neg)
        ELSE IF n1 = 0 /\ n2 = 0 THEN NaN
        ELSE Fin(neg,
                 DigitsVal(SubSeq(t, 1, n1) \o SubSeq(u, 2, n2 + 1)),
                 n2)

(* ------------------------- handler computations ----------------------- *)

Digits == {0, 5}
Operators == {"+", "-", "×", "÷"}
HistDigits == {1}
HistOperators == {"+"}

Zero == Fin(FALSE, 0, 0)
Hundred == Fin(FALSE, 100, 0)

\* Variant of DigitDisplay without the display === '0' case.
DigitDisplayAppend(d, disp, waiting) ==
    IF waiting THEN NatStr(d) ELSE disp \o NatStr(d)

\* inputDigit: the display after a digit press.
DigitDisplay(d, disp, waiting) ==
    IF waiting THEN NatStr(d)
    ELSE IF disp = <<"0">> THEN NatStr(d) ELSE disp \o NatStr(d)

\* Variant of DotDisplay without the includes('.') test.
DotDisplayAlways(disp, waiting) ==
    IF waiting THEN <<"0", ".">> ELSE disp \o <<".">>

\* Variant of DotDisplay that starts a fresh "0." on a display that
\* already holds a point.
DotDisplayRestart(disp, waiting) ==
    IF waiting THEN <<"0", ".">>
    ELSE IF ~Includes(disp, ".") THEN disp \o <<".">> ELSE <<"0", ".">>

\* inputDot: the display after a decimal-point press.
DotDisplay(disp, waiting) ==
    IF waiting THEN <<"0", ".">>
    ELSE IF ~Includes(disp, ".") THEN disp \o <<".">> ELSE disp

\* handleBackspace: display.slice(0, -1), "0" when that is empty.
BackspaceDisplay(disp) ==
    LET newValue == SubSeq(disp, 1, Len(disp) - 1)
    IN  IF newValue = <<>> THEN <<"0">> ELSE newValue

\* Variant of ToggleDisplay that negates the parsed number.
ToggleDisplayNumeric(disp) == NumStr(Negate(ParseFloat(disp)))

\* toggleSign: strip a leading '-' or prepend one.
ToggleDisplay(disp) ==
    IF StartsWith(disp, <<"-">>) THEN Tail(disp) ELSE <<"-">> \o disp

\* inputPercent: String(value / 100).
PercentDisplay(value) == NumStr(Divide(value, Hundred))

\* performOperation: const currentValue = previousValue || 0.
CurrentValue(prev) == IF Truthy(prev) THEN prev ELSE Zero

\* performOperation: the switch over the pending operation.
Calculate(currentValue, op, inputValue) ==
    CASE op = "+" -> Plus(currentValue, inputValue)
      [] op = "-" -> Minus(currentValue, inputValue)
      [] op = "×" -> Times(currentValue, inputValue)
      [] op = "÷" -> Divide(currentValue, inputValue)
      [] OTHER -> inputValue

\* performOperation: `${currentValue} ${operation} ${inputValue} = ${newValue}`.
HistoryLine(currentValue, op, inputValue, newValue) ==
    NumStr(currentValue) \o <<" ", op, " ">> \o NumStr(inputValue)
    \o <<" ", "=", " ">> \o NumStr(newValue)

\* Array.prototype.slice(-n): the last n entries (all when fewer).
SliceLast(s, n) == SubSeq(s, IF Len(s) > n THEN Len(s) - n + 1 ELSE 1, Len(s))

\* Variant of HistoryAfter without the slice.
HistoryAfterNoEvict(prev, line) == prev \o <<line>>

\* performOperation: [...prev.slice(-4), line].
KeepLast == 4
HistoryAfter(prev, line) == SliceLast(prev, KeepLast) \o <<line>>

\* Variant of EqualsGuard without the waitingForOperand test.
EqualsGuardOpOnly(op, waiting) == op # "null"

\* handleEquals: operation && !waitingForOperand.
EqualsGuard(op, waiting) == op # "null" /\ ~waiting

(* ------------------------------ rendering ----------------------------- *)

\* String.prototype.split('.'): the pieces between the points.
RECURSIVE Split(_)
Split(s) ==
    IF ~Includes(s, ".") THEN <<s>>
    ELSE LET i == CHOOSE j \in 1..Len(s) :
                     s[j] = "." /\ \A k \in 1..(j - 1) : s[k] # "."
         IN  <<SubSeq(s, 1, i - 1)>> \o Split(SubSeq(s, i + 1, Len(s)))

\* \w on the characters a display can hold: digits and the letters of
\* "NaN" and "Infinity".
IsWordChar(c) == IsDigit(c) \/ c \in {"N", "a", "I", "n", "f", "i", "t", "y"}

\* /\B(?=(\d{3})+(?!\d))/ matches between s[p] and s[p+1]: no word
\* boundary there, and the digits that follow, up to the first non-digit,
\* are a positive multiple of three.
SeparatorAt(s, p) ==
    /\ p >= 1 /\ p < Len(s)
    /\ IsWordChar(s[p]) = IsWordChar(s[p + 1])
    /\ LET run == DigitRun(SubSeq(s, p + 1, Len(s)))
       IN  run >= 3 /\ run % 3 = 0

\* integerPart.replace(/\B(?=(\d{3})+(?!\d))/g, ',')
RECURSIVE Separated(_, _)
Separated(s, p) ==
    IF p > Len(s) THEN <<>>
    ELSE <<s[p]>> \o (IF SeparatorAt(s, p) THEN <<",">> ELSE <<>>)
         \o Separated(s, p + 1)

\* Variant of formatNumber that shows "0" for what is not a number.
formatNumberZeroInvalid(numStr) ==
    IF numStr = <<>> \/ ParseFloat(numStr) = NaN
    THEN <<"0">>
    ELSE IF numStr = NumStr(Inf(FALSE)) \/ numStr = NumStr(Inf(TRUE))
    THEN numStr
    ELSE LET parts == Split(numStr)
             formattedInteger == Separated(parts[1], 1)
         IN  IF Len(parts) >= 2 /\ parts[2] # <<>>
             THEN formattedInteger \o <<".">> \o parts[2]
             ELSE formattedInteger

\* formatNumber: the text shown for a display string.
formatNumber(numStr) ==
    IF \/ numStr = <<>>
       \/ numStr = NumStr(Inf(FALSE))
       \/ numStr = NumStr(Inf(TRUE))
       \/ ParseFloat(numStr) = NaN
    THEN numStr
    ELSE LET parts == Split(numStr)
             formattedInteger == Separated(parts[1], 1)
         IN  IF Len(parts) >= 2 /\ parts[2] # <<>>
             THEN formattedInteger \o <<".">> \o parts[2]
             ELSE formattedInteger

(* ------------------------------- actions ------------------------------ *)

\* log, last and keys are history variables: every history line ever
\* appended, the most recent key (with its digit or operator, whether its
\* handler returned without a state update, and for the sign key the
\* display it was pressed on), and the number of key presses; chained holds
\* while previousValue is the result computed by an operator press that
\* followed a second operand.
Init ==
    /\ display = <<"0">>
    /\ previousValue = Null
    /\ operation = "null"
    /\ waitingForOperand = FALSE
    /\ history = <<>>
    /\ log = <<>>
    /\ last = [key |-> "init", arg |-> <<>>, noop |-> FALSE, from |-> <<>>]
    /\ keys = 0
    /\ chained = FALSE

Key(k, arg, noop, maxKeys) ==
    /\ keys < maxKeys
    /\ keys' = keys + 1
    /\ last' = [key |-> k, arg |-> arg, noop |-> noop,
                from |-> IF k = "sign" THEN display ELSE <<>>]

\* Variant of inputDigit that drops the previous result when a digit
\* starts a new number after equals.
inputDigitFresh(d, maxLen, maxKeys) ==
    /\ IF waitingForOperand \/ display = <<"0">> THEN TRUE
       ELSE Len(display) < maxLen
    /\ display' = DigitDisplay(d, display, waitingForOperand)
    /\ waitingForOperand' = FALSE
    /\ previousValue' = (IF waitingForOperand /\ operation = "null"
                         THEN Null ELSE previousValue)
    /\ Key("digit", NatStr(d), FALSE, maxKeys)
    /\ UNCHANGED <<operation, history, log, chained>>

inputDigit(d, maxLen, maxKeys) ==
    /\ IF waitingForOperand \/ display = <<"0">> THEN TRUE
       ELSE Len(display) < maxLen
    /\ display' = DigitDisplay(d, display, waitingForOperand)
    /\ waitingForOperand' = FALSE
    /\ Key("digit", NatStr(d), FALSE, maxKeys)
    /\ UNCHANGED <<previousValue, operation, history, log, chained>>

inputDot(maxLen, maxKeys) ==
    /\ IF waitingForOperand \/ Includes(display, ".") THEN TRUE
       ELSE Len(display) < maxLen
    /\ display' = DotDisplay(display, waitingForOperand)
    /\ waitingForOperand' = FALSE
    /\ Key("dot", <<>>, ~waitingForOperand /\ Includes(display, "."), maxKeys)
    /\ UNCHANGED <<previousValue, operation, history, log, chained>>

\* Variant of clearAll that also empties the history.
clearAllAndHistory(maxKeys) ==
    /\ display' = <<"0">>
    /\ previousValue' = Null
    /\ operation' = "null"
    /\ waitingForOperand' = FALSE
    /\ history' = <<>>
    /\ keys < maxKeys
    /\ keys' = keys + 1
    /\ last' = [key |-> "clear", arg |-> <<>>, noop |-> FALSE, from |-> <<>>]
    /\ chained' = FALSE
    /\ UNCHANGED log

clearAll(maxKeys) ==
    /\ display' = <<"0">>
    /\ previousValue' = Null
    /\ operation' = "null"
    /\ waitingForOperand' = FALSE
    /\ Key("clear", <<>>, FALSE, maxKeys)
    /\ chained' = FALSE
    /\ UNCHANGED <<history, log>>

handleBackspace(maxKeys) ==
    /\ display' = IF waitingForOperand THEN display ELSE BackspaceDisplay(display)
    /\ Key("backspace", <<>>, waitingForOperand, maxKeys)
    /\ UNCHANGED <<previousValue, operation, waitingForOperand, history, log, chained>>

\* Variant of toggleSign without the waitingForOperand test.
toggleSignAlways(maxKeys) ==
    /\ display' = ToggleDisplay(display)
    /\ Key("sign", <<>>, FALSE, maxKeys)
    /\ UNCHANGED <<previousValue, operation, waitingForOperand, history, log, chained>>

toggleSign(maxKeys) ==
    /\ display' = IF waitingForOperand THEN display ELSE ToggleDisplay(display)
    /\ Key("sign", <<>>, waitingForOperand, maxKeys)
    /\ UNCHANGED <<previousValue, operation, waitingForOperand, history, log, chained>>

\* Called by no button and no key (so not a step of Next).
inputPercent(maxKeys) ==
    \E value \in {ParseFloat(display)} :
        /\ IF waitingForOperand THEN TRUE
           ELSE InDomain(value, "÷", Hundred)
        /\ display' = IF waitingForOperand THEN display
                       ELSE PercentDisplay(value)
        /\ Key("percent", <<>>, waitingForOperand, maxKeys)
        /\ UNCHANGED <<previousValue, operation, waitingForOperand, history,
                       log, chained>>

\* Variant of performOperation in which an operator pressed while
\* waitingForOperand is true only replaces the pending operator.
performOperationReplace(nextOperation) ==
    LET inputValue == ParseFloat(display)
        currentValue == CurrentValue(previousValue)
        newValue == Calculate(currentValue, operation, inputValue)
        line == HistoryLine(currentValue, operation, inputValue, newValue)
    IN  /\ IF previousValue = Null
           THEN /\ previousValue' = inputValue
                /\ chained' = FALSE
                /\ UNCHANGED <<display, history, log>>
           ELSE IF operation # "null" /\ ~waitingForOperand
           THEN /\ InDomain(currentValue, operation, inputValue)
                /\ previousValue' = newValue
                /\ display' = NumStr(newValue)
                /\ history' = HistoryAfter(history, line)
                /\ log' = Append(log, line)
                /\ chained' = (nextOperation # "null")
           ELSE /\ chained' = FALSE
                /\ UNCHANGED <<previousValue, display, history, log>>
        /\ waitingForOperand' = TRUE
        /\ operation' = nextOperation

\* Variant of performOperation that rewrites the display with the number
\* it captures as first operand.
performOperationRedisplay(nextOperation) ==
    LET inputValue == ParseFloat(display)
        currentValue == CurrentValue(previousValue)
        newValue == Calculate(currentValue, operation, inputValue)
        line == HistoryLine(currentValue, operation, inputValue, newValue)
    IN  /\ IF previousValue = Null
           THEN /\ previousValue' = inputValue
                /\ display' = NumStr(inputValue)
                /\ chained' = FALSE
                /\ UNCHANGED <<history, log>>
           ELSE IF operation # "null"
           THEN /\ InDomain(currentValue, operation, inputValue)
                /\ previousValue' = newValue
                /\ display' = NumStr(newValue)
                /\ history' = HistoryAfter(history, line)
                /\ log' = Append(log, line)
                /\ chained' = (~waitingForOperand /\ nextOperation # "null")
           ELSE /\ chained' = FALSE
                /\ UNCHANGED <<previousValue, display, history, log>>
        /\ waitingForOperand' = TRUE
        /\ operation' = nextOperation

\* The body of performOperation(nextOperation).
performOperation(nextOperation) ==
    LET inputValue == ParseFloat(display)
        currentValue == CurrentValue(previousValue)
        newValue == Calculate(currentValue, operation, inputValue)
        line == HistoryLine(currentValue, operation, inputValue, newValue)
    IN  /\ IF previousValue = Null
           THEN /\ previousValue' = inputValue
                /\ chained' = FALSE
                /\ UNCHANGED <<display, history, log>>
           ELSE IF operation # "null"
           THEN /\ InDomain(currentValue, operation, inputValue)
                /\ previousValue' = newValue
                /\ display' = NumStr(newValue)
                /\ history' = HistoryAfter(history, line)
                /\ log' = Append(log, line)
                /\ chained' = (~waitingForOperand /\ nextOperation # "null")
           ELSE /\ chained' = FALSE
                /\ UNCHANGED <<previousValue, display, history, log>>
        /\ waitingForOperand' = TRUE
        /\ operation' = nextOperation

pressOperator(op, maxKeys) ==
    /\ performOperation(op)
    /\ Key("operator", <<op>>, FALSE, maxKeys)

handleEquals(maxKeys) ==
    /\ IF EqualsGuard(operation, waitingForOperand)
       THEN performOperation("null")
       ELSE UNCHANGED <<display, previousValue, operation, waitingForOperand,
                        history, log, chained>>
    /\ Key("equals", <<>>, ~EqualsGuard(operation, waitingForOperand), maxKeys)

Next ==
    \/ \E d \in Digits : inputDigit(d, MaxLen, MaxKeys)
    \/ inputDot(MaxLen, MaxKeys)
    \/ clearAll(MaxKeys)
    \/ handleBackspace(MaxKeys)
    \/ toggleSign(MaxKeys)
    \/ \E op \in Operators : pressOperator(op, MaxKeys)
    \/ handleEquals(MaxKeys)

Spec == Init /\ [][Next]_vars

\* Long runs over one digit and one operator, to fill the history.
NextHistory ==
    \/ \E d \in HistDigits : inputDigit(d, HistLen, HistKeys)
    \/ \E op \in HistOperators : pressOperator(op, HistKeys)
    \/ handleEquals(HistKeys)
    \/ clearAll(HistKeys)

SpecHistory == Init /\ [][NextHistory]_vars

\* The characters of the key names used here, in the order of their
\* UTF-16 code units: the order the string comparisons < and > follow.
CodeUnitOrder ==
    <<"*", "+", "-", ".", "/",
      "0", "1", "2", "3", "4", "5", "6", "7", "8", "9",
      "=", "B", "E", "T", "a", "b", "c", "e", "k", "n", "p", "r", "s", "t",
      "x">>
CodeUnitRank(c) ==
    CHOOSE i \in 1..Len(CodeUnitOrder) : CodeUnitOrder[i] = c

\* a <= b on strings: the first differing character decides, a proper
\* prefix comes first.
RECURSIVE StrLE(_, _)
StrLE(a, b) ==
    IF a = <<>> THEN TRUE
    ELSE IF b = <<>> THEN FALSE
    ELSE IF Head(a) # Head(b)
    THEN CodeUnitRank(Head(a)) < CodeUnitRank(Head(b))
    ELSE StrLE(Tail(a), Tail(b))

\* parseInt(s, 10) of a string that begins with a digit: the value of its
\* leading digits.
ParseInt(s) == DigitsVal(SubSeq(s, 1, DigitRun(s)))

\* Variant of opMap that passes the key through.
opMapIdentity(key) == Head(key)

\* handleKeyDown: the operator a key stands for.
opMap(key) ==
    CASE key = <<"*">> -> "×"
      [] key = <<"/">> -> "÷"
      [] key = <<"+">> -> "+"
      [] key = <<"-">> -> "-"

Enter == <<"E", "n", "t", "e", "r">>
Escape == <<"E", "s", "c", "a", "p", "e">>
Backspace == <<"B", "a", "c", "k", "s", "p", "a", "c", "e">>
Tab == <<"T", "a", "b">>

\* The values of e.key pressed (SpecKeyboard).  Tab stands for the keys
\* handleKeyDown ignores, "10" for a key value of several characters.
KeyboardKeys ==
    {<<"0">>, <<"5">>, <<".">>, Enter, <<"=">>, Escape, Backspace,
     <<"+">>, <<"-">>, <<"*">>, <<"/">>, Tab, <<"1", "0">>}

\* handleKeyDown: a key of the keyboard calls the handler of its button;
\* any other key is ignored.  The digit test compares strings.
handleKeyDown(key, maxLen, maxKeys) ==
    IF StrLE(<<"0">>, key) /\ StrLE(key, <<"9">>)
    THEN inputDigit(ParseInt(key), maxLen, maxKeys)
    ELSE IF key = <<".">> THEN inputDot(maxLen, maxKeys)
    ELSE IF key = Enter \/ key = <<"=">> THEN handleEquals(maxKeys)
    ELSE IF key = Escape THEN clearAll(maxKeys)
    ELSE IF key = Backspace THEN handleBackspace(maxKeys)
    ELSE IF key \in {<<"+">>, <<"-">>, <<"*">>, <<"/">>}
    THEN pressOperator(opMap(key), maxKeys)
    ELSE UNCHANGED vars

\* Behaviours driven from the keyboard alone.
NextKeyboard == \E key \in KeyboardKeys : handleKeyDown(key, KbdLen, KbdKeys)

SpecKeyboard == Init /\ [][NextKeyboard]_vars

(* ------------------------------- claims ------------------------------- *)

Special == {NumStr(NaN), NumStr(Inf(FALSE)), NumStr(Inf(TRUE))}

\* s matches -?\d+(\.\d+)?
MatchesNumeral(s) ==
    LET t == IF s # <<>> /\ Head(s) = "-" THEN Tail(s) ELSE s
        n1 == DigitRun(t)
        u == SubSeq(t, n1 + 1, Len(t))
    IN  /\ n1 >= 1
        /\ \/ u = <<>>
           \/ /\ Head(u) = "."
              /\ Len(u) >= 2
              /\ DigitRun(Tail(u)) = Len(u) - 1

EndsWith(s, p) ==
    Len(s) >= Len(p) /\ SubSeq(s, Len(s) - Len(p) + 1, Len(s)) = p

\* Equality of numbers as === sees it on finite values (0 and -0 are
\* equal), with NaN equal to NaN.
SameNumber(a, b) == a = b \/ (IsZero(a) /\ IsZero(b))

\* This step ran performOperation (an operator press, or an equals press
\* that passed its guard).
Applied == last'.key \in {"operator", "equals"} /\ ~last'.noop

\* This step ran the computing branch of performOperation.
Computing == Applied /\ previousValue # Null /\ operation # "null"

\* C1: in every reachable state display is not the empty string.
C1_DisplayNeverEmpty == display # <<>>

\* C2: history has at most 5 entries and holds exactly the most recent
\* completed operations, oldest first: it is the suffix of the sequence of
\* all history lines ever appended, of length min(5, number appended).
C2_HistoryIsLastFive ==
    /\ Len(history) <= 5
    /\ Len(history) = (IF Len(log) < 5 THEN Len(log) ELSE 5)
    /\ \A i \in 1..Len(history) :
          history[i] = log[Len(log) - Len(history) + i]

\* C2 witness: a sixth operation has completed and the oldest line is gone.
C2_Witness ==
    /\ Len(log) = 6
    /\ Len(history) = 5
    /\ history[1] = log[2]
    /\ history[1] # log[1]

\* C3: whenever performOperation runs, display parses to a number, or is
\* the text "NaN".
C3_ParseNeverFails ==
    [][Applied => (ParseFloat(display) # NaN \/ display = NumStr(NaN))]_vars

\* C4: in every reachable state display matches -?\d+(\.\d+)? or is
\* "Infinity", "-Infinity" or "NaN".
C4_DisplayPattern == MatchesNumeral(display) \/ display \in Special

\* C5: a computing press made while previousValue is NaN yields NaN in
\* display, in previousValue and in the appended history line.
C5_NaNPropagates ==
    [][(Computing /\ previousValue = NaN) =>
         /\ display' = NumStr(NaN)
         /\ previousValue' = NaN
         /\ history' # <<>>
         /\ EndsWith(history'[Len(history')], NumStr(NaN))]_vars

\* C6: a computing press sets previousValue to
\* previousValue (op) number(display), display to its text, and appends
\* exactly the line "<previousValue> <op> <inputValue> = <result>" with the
\* previousValue held before the press.
C6_ComputeAndLog ==
    [][Computing =>
         LET inputValue == ParseFloat(display)
             result == Calculate(previousValue, operation, inputValue)
         IN  /\ SameNumber(previousValue', result)
             /\ display' = NumStr(result)
             /\ Len(log') = Len(log) + 1
             /\ history' # <<>>
             /\ history'[Len(history')] =
                    NumStr(previousValue) \o <<" ", operation, " ">>
                    \o NumStr(inputValue) \o <<" ", "=", " ">>
                    \o NumStr(result)]_vars

\* C7: an operator pressed after a second operand immediately puts the
\* result of the pending operator into previousValue and display and
\* becomes the pending operator, and an equals press after the next operand
\* applies it to that intermediate result.
C7_LeftToRight ==
    [][/\ (Computing /\ last'.key = "operator" /\ ~waitingForOperand) =>
            /\ <<operation'>> = last'.arg
            /\ waitingForOperand'
            /\ display' = NumStr(previousValue')
       /\ (Computing /\ last'.key = "equals" /\ chained) =>
            display' = NumStr(Calculate(previousValue, operation,
                                        ParseFloat(display)))]_vars

\* C8: an equals press made unless an operator is pending and a second
\* operand has been entered leaves the calculator state unchanged.
C8_EqualsNoop ==
    [][(last'.key = "equals"
          /\ ~(operation # "null" /\ waitingForOperand = FALSE)) =>
         UNCHANGED <<display, previousValue, operation, waitingForOperand,
                     history>>]_vars

\* C8 witness: equals was pressed again after an equals that computed
\* (nothing pending, still awaiting a new operand) and changed nothing.
C8_Witness ==
    /\ last.key = "equals" /\ last.noop
    /\ operation = "null" /\ waitingForOperand
    /\ previousValue # Null /\ history # <<>>

\* C9: clearAll resets display, previousValue, the pending operator and
\* awaitingNewOperand, and leaves history as it was.
C9_ClearKeepsHistory ==
    [][last'.key = "clear" =>
         /\ display' = <<"0">>
         /\ previousValue' = Null
         /\ operation' = "null"
         /\ waitingForOperand' = FALSE
         /\ history' = history]_vars

\* C9 witness: clearAll has run with a non-empty history.
C9_Witness ==
    /\ last.key = "clear"
    /\ history # <<>>
    /\ previousValue = Null

\* C10: display contains at most one decimal point.
C10_AtMostOnePoint ==
    Cardinality({i \in 1..Len(display) : display[i] = "."}) <= 1

\* C10 witness: the decimal point was pressed on a display that already
\* held one.
C10_Witness ==
    /\ last.key = "dot" /\ last.noop
    /\ Includes(display, ".")

\* This step divides by a display that parses to zero (0 or -0).
DivByZero == Computing /\ operation = "÷" /\ IsZero(ParseFloat(display))

\* The newest history line records a division by zero (String(-0) is "0"
\* too) and the display still shows its result.
AfterDivByZero ==
    /\ waitingForOperand
    /\ display \in Special
    /\ history # <<>>
    /\ EndsWith(history[Len(history)],
                <<" ", "÷", " ", "0", " ", "=", " ">> \o display)

\* Every handler can take its next step (as long as the key budget lasts).
AllEnabled ==
    /\ \A d \in Digits : ENABLED inputDigit(d, MaxLen, MaxKeys)
    /\ ENABLED inputDot(MaxLen, MaxKeys)
    /\ ENABLED clearAll(MaxKeys)
    /\ ENABLED handleBackspace(MaxKeys)
    /\ ENABLED toggleSign(MaxKeys)
    /\ \A op \in Operators : ENABLED pressOperator(op, MaxKeys)
    /\ ENABLED handleEquals(MaxKeys)

\* C11 (as stated): with "÷" pending and display parsing to 0, a computing
\* press sets display to "Infinity" for a positive finite previousValue, to
\* "-Infinity" for a negative one and to "NaN" for zero, appends a history
\* line, and every action remains enabled afterwards.
C11_DivisionByZero ==
    /\ [][(DivByZero /\ IsFin(previousValue)) =>
            /\ display' = (IF previousValue.m = 0 THEN NumStr(NaN)
                           ELSE NumStr(Inf(previousValue.neg)))
            /\ Len(log') = Len(log) + 1
            /\ history' # <<>>]_vars
    /\ []((AfterDivByZero /\ keys < MaxKeys) => AllEnabled)

\* C11 (amended): as above, with the sign of the infinity being the sign of
\* previousValue only when display parses to positive zero, and the
\* opposite sign when it parses to negative zero ("-0").
C11_DivisionByZeroSigned ==
    /\ [][(DivByZero /\ IsFin(previousValue)) =>
            /\ display' =
                 (IF previousValue.m = 0 THEN NumStr(NaN)
                  ELSE NumStr(Inf(previousValue.neg # ParseFloat(display).neg)))
            /\ Len(log') = Len(log) + 1
            /\ history' # <<>>
            /\ EndsWith(history'[Len(history')], display')]_vars
    /\ []((AfterDivByZero /\ keys < MaxKeys) => AllEnabled)

\* C11 witness: 5 ÷ 0 = has left "Infinity" and its history line.
C11_Witness ==
    /\ last.key = "equals" /\ ~last.noop
    /\ display = NumStr(Inf(FALSE))
    /\ history = <<HistoryLine(Fin(FALSE, 5, 0), "÷", Zero, Inf(FALSE))>>
    /\ AfterDivByZero
    /\ keys < MaxKeys

\* C12: a decimal-point press that directly follows a decimal-point press
\* changes nothing (pressing '.' twice gives the state one press gives), and
\* in awaiting-new-operand mode the first press gives "0.".
C12_DotIdempotent ==
    [][/\ (last.key = "dot" /\ last'.key = "dot") =>
            UNCHANGED <<display, previousValue, operation, waitingForOperand,
                        history>>
       /\ (last'.key = "dot" /\ waitingForOperand) =>
            (display' = <<"0", ".">> /\ ~waitingForOperand')]_vars

\* C12 witness: an operator, then '.' twice: the first press gave "0." and
\* the second found the point already there.
C12_Witness ==
    /\ keys = 3
    /\ last.key = "dot" /\ last.noop
    /\ operation # "null"
    /\ display = <<"0", ".">>
    /\ ~waitingForOperand

\* C13: a sign toggle that directly follows a sign toggle restores the
\* state the first one was pressed in, and a single toggle made while
\* waitingForOperand is false removes the leading '-' of display, or adds
\* one when display has none.
C13_ToggleSignInvolution ==
    [][/\ (last.key = "sign" /\ last'.key = "sign") =>
            /\ display' = last.from
            /\ UNCHANGED <<previousValue, operation, waitingForOperand,
                           history>>
       /\ (last'.key = "sign" /\ ~waitingForOperand) =>
            /\ display' = (IF display # <<>> /\ Head(display) = "-"
                           THEN Tail(display) ELSE <<"-">> \o display)
            /\ UNCHANGED <<previousValue, operation, waitingForOperand,
                           history>>]_vars

\* C13 witness: 5, then the sign key twice: "5", "-5", "5".
C13_Witness ==
    /\ keys = 3
    /\ last.key = "sign" /\ ~last.noop
    /\ last.from = <<"-", "5">>
    /\ display = <<"5">>

\* C14: a digit press made while waitingForOperand is true sets display to
\* the digit alone; otherwise it replaces a display of "0" by the digit and
\* appends the digit to any other display; waitingForOperand is false
\* afterwards.
C14_InputDigit ==
    [][last'.key = "digit" =>
         /\ display' = (IF waitingForOperand THEN last'.arg
                        ELSE IF display = <<"0">> THEN last'.arg
                        ELSE display \o last'.arg)
         /\ waitingForOperand' = FALSE]_vars

\* C14 witness: a digit has replaced the "Infinity" left by 5 ÷ 0 =, and a
\* further digit was appended to it.
C14_Witness ==
    /\ last.key = "digit"
    /\ previousValue = Inf(FALSE)
    /\ display = <<"5", "0">>
    /\ ~waitingForOperand

\* C15: after every operator press, and every equals press that passes its
\* guard, waitingForOperand is true and operation is the operator pressed
\* (null for equals); a press made while previousValue is null only stores
\* the number display parses to: display and history stay as they were.
C15_OperatorPress ==
    [][Applied =>
         /\ waitingForOperand'
         /\ operation' = (IF last'.key = "operator" THEN Head(last'.arg)
                          ELSE "null")
         /\ previousValue = Null =>
              /\ previousValue' = ParseFloat(display)
              /\ UNCHANGED <<display, history, log>>]_vars

\* C15 witness: 5 and a point were keyed in and × captured 5 as first
\* operand, the display still reading "5.".
C15_Witness ==
    /\ last.key = "operator" /\ last.arg = <<"×">>
    /\ operation = "×"
    /\ waitingForOperand
    /\ previousValue = Fin(FALSE, 5, 0)
    /\ display = <<"5", ".">>
    /\ log = <<>>

Editing == {"digit", "dot", "backspace", "sign"}

\* inputPercent is called by no button and no key, so no step of a
\* behaviour is a percent step; what a call of it would do in a state is
\* what the step of the action inputPercent from that state does.  It is
\* examined in the states reached by at most PercentKeys key presses.
PercentWouldKeep(vs) ==
    keys <= PercentKeys =>
        \/ ENABLED (inputPercent(MaxKeys) /\ vs' = vs)
        \/ ~ENABLED inputPercent(MaxKeys)

\* C16: a digit, decimal-point, backspace or sign press leaves
\* previousValue, operation and history as they were, so would a call of
\* inputPercent in any reachable state, and history changes only in an
\* operator or equals press.
C16_EditingFrame ==
    /\ [][/\ last'.key \in Editing =>
               UNCHANGED <<previousValue, operation, history>>
          /\ history' # history =>
               last'.key \in {"operator", "equals"}]_vars
    /\ [](PercentWouldKeep(<<previousValue, operation, history>>))

\* C16 witness: a second operand was keyed in while an operator was
\* pending and the history held a line; a call of inputPercent there would
\* rewrite the display to "0.05".
C16_Witness ==
    /\ last.key = "digit"
    /\ display = <<"5">>
    /\ operation # "null"
    /\ previousValue # Null
    /\ history # <<>>
    /\ keys <= PercentKeys
    /\ ENABLED (inputPercent(MaxKeys) /\ display' = <<"0", ".", "0", "5">>)

\* C17: while waitingForOperand is true a backspace or sign press leaves
\* display, previousValue, operation, waitingForOperand and history
\* unchanged, and so would a call of inputPercent.
C17_NoEditWhileAwaiting ==
    /\ [][(waitingForOperand /\ last'.key \in {"backspace", "sign"}) =>
             UNCHANGED <<display, previousValue, operation,
                         waitingForOperand, history>>]_vars
    /\ [](waitingForOperand =>
             PercentWouldKeep(<<display, previousValue, operation,
                                waitingForOperand, history>>))

\* C17 witness: backspace was pressed on the result of + 5 = and the
\* display still reads "5"; inputPercent could be called there.
C17_Witness ==
    /\ last.key = "backspace" /\ last.noop
    /\ waitingForOperand
    /\ display = <<"5">>
    /\ previousValue = Fin(FALSE, 5, 0)
    /\ history # <<>>
    /\ keys <= PercentKeys
    /\ ENABLED inputPercent(MaxKeys)

\* s without its thousands separators.
Unseparated(s) == SelectSeq(s, LAMBDA c : c # ",")

\* A run of digits grouped in threes from its right end.
RECURSIVE GroupedFromRight(_)
GroupedFromRight(ds) ==
    IF Len(ds) <= 3 THEN ds
    ELSE GroupedFromRight(SubSeq(ds, 1, Len(ds) - 3))
         \o <<",">> \o SubSeq(ds, Len(ds) - 2, Len(ds))

\* C18: what formatNumber shows for the display differs from it only by
\* thousands separators: taking the separators out gives the display back
\* (decimal point and fraction included), none stands after the point or
\* directly after a leading minus, and the integer digits are grouped in
\* threes from the right.
C18_FormatOnlySeparates ==
    LET out == formatNumber(display)
        parts == Split(out)
        integerPart == parts[1]
        body == IF integerPart # <<>> /\ Head(integerPart) = "-"
                THEN Tail(integerPart) ELSE integerPart
    IN  /\ Unseparated(out) = display
        /\ \A i \in 2..Len(parts) : ~Includes(parts[i], ",")
        /\ body = <<>> \/ Head(body) # ","
        /\ IF DigitRun(Unseparated(body)) = Len(Unseparated(body))
           THEN body = GroupedFromRight(Unseparated(body))
           ELSE ~Includes(body, ",")

\* C19: a display that is "Infinity", "-Infinity" or "NaN", or that does
\* not parse to a number, is shown by formatNumber as it is.  (formatNumber
\* is an operator of its argument alone: showing a display assigns no
\* variable.)
C19_FormatLeavesNonNumbers ==
    (display \in Special \/ ParseFloat(display) = NaN) =>
        formatNumber(display) = display

\* C19 witness: the display holds the "-Infinity" of a division of a
\* negative number by zero.
C19_Witness ==
    /\ display = NumStr(Inf(TRUE))
    /\ previousValue = Inf(TRUE)
    /\ waitingForOperand
    /\ history # <<>>
    /\ formatNumber(display) = display

\* C20 (as stated): a history line is appended only by an operator or
\* equals press made while waitingForOperand is false, and an operator
\* pressed while waitingForOperand is true only replaces operation: display,
\* previousValue and history stay as they were.
C20_ComputeOnlyAfterOperand ==
    [][/\ Len(log') > Len(log) =>
            (last'.key \in {"operator", "equals"} /\ ~waitingForOperand)
       /\ (last'.key = "operator" /\ waitingForOperand) =>
            /\ <<operation'>> = last'.arg
            /\ UNCHANGED <<display, previousValue, history>>]_vars

\* C20 (amended): a history line is appended only by an operator or equals
\* press made while an operator is pending, and for equals only while
\* waitingForOperand is false.  An operator pressed while waitingForOperand
\* is true and an operator is pending computes like any other operator
\* press, with the display as second operand: it appends a history line and
\* shows the new previousValue; with no operator pending (after equals) it
\* only sets operation.
C20_ComputeOnPendingOperator ==
    [][/\ Len(log') > Len(log) =>
            /\ last'.key \in {"operator", "equals"}
            /\ operation # "null"
            /\ previousValue # Null
            /\ last'.key = "equals" => ~waitingForOperand
       /\ (last'.key = "operator" /\ waitingForOperand) =>
            /\ <<operation'>> = last'.arg
            /\ IF operation # "null"
               THEN /\ Len(log') = Len(log) + 1
                    /\ log'[Len(log')] =
                         HistoryLine(CurrentValue(previousValue), operation,
                                     ParseFloat(display), previousValue')
                    /\ display' = NumStr(previousValue')
               ELSE UNCHANGED <<display, previousValue, history, log>>]_vars

\* C20 witness: 5, + and + again: the second + added 5 to the 5 still on
\* display.
C20_Witness ==
    /\ keys = 3
    /\ last.key = "operator"
    /\ log = <<HistoryLine(Fin(FALSE, 5, 0), "+", Fin(FALSE, 5, 0),
                           Fin(FALSE, 10, 0))>>
    /\ display = <<"1", "0">>
    /\ waitingForOperand

\* C21: whenever waitingForOperand is true and an operator is pending,
\* previousValue is the number display parses to; so a number entered
\* after equals is, once an operator is pressed, the left operand of the
\* next computation.
C21_LeftOperandIsDisplay ==
    (waitingForOperand /\ operation # "null") =>
        SameNumber(previousValue, ParseFloat(display))

\* C22: whenever an operator is pending previousValue is not null, and
\* operation is null or one of +, -, ×, ÷, also when the operator came
\* from the keyboard keys + - * /.
C22_PendingOperator ==
    /\ operation # "null" => previousValue # Null
    /\ operation \in {"null", "+", "-", "×", "÷"}

\* C22 witness: 5 was captured by the keyboard key * and × is pending.
C22_Witness ==
    /\ last.key = "operator" /\ last.arg = <<"×">>
    /\ operation = "×"
    /\ previousValue = Fin(FALSE, 5, 0)
    /\ waitingForOperand

====
